---- MODULE Spec2Model ----
(***************************************************************************)
(* A model of hadithdiff.py: the HadithDiffer comparison session, its text *)
(* cleaning pipeline and the similarity ratio it returns.                  *)
(*                                                                         *)
(* A text is a sequence of Unicode code points (integers).  The three      *)
(* library calls the class makes are modelled by what they do on the       *)
(* fragment of inputs used here:                                           *)
(*   - BeautifulSoup(text, 'lxml').text : tags are dropped, the character  *)
(*     references &lt; &gt; &amp; and decimal &#N; are decoded, any other  *)
(*     character is text;                                                  *)
(*   - unicodedata.normalize('NFD', ..) and unicodedata.category : the     *)
(*     canonical decompositions and the Mn class of the code points below; *)
(*   - difflib.SequenceMatcher(None, a, b).ratio() : the index of b with   *)
(*     its default autojunk pruning, find_longest_match, the matching      *)
(*     blocks and the ratio.                                               *)
(***************************************************************************)
EXTENDS Integers, Sequences, FiniteSets

VARIABLES
    _hadith_text1,          \* raw text 1, as last given to set_hadith_texts
    _hadith_text1_cleaned,  \* its cleaned form
    _hadith_text2,          \* raw text 2
    _hadith_text2_cleaned,  \* its cleaned form
    _ignore_diacritics,     \* the diacritics policy
    lastOp,                 \* the last method called: "init", "set", "ignore", "compare"
    outcome,                \* how that call ended: "none", "self", "error", "ratio"
    result,                 \* the ratio returned (a reduced fraction), or NoResult
    lastSet1,               \* call record: first argument of the last set_hadith_texts
    lastSet2,               \* call record: second argument of the last set_hadith_texts
    lastPolicy              \* call record: argument of the last ignore_diacritics

vars == <<_hadith_text1, _hadith_text1_cleaned, _hadith_text2, _hadith_text2_cleaned,
          _ignore_diacritics, lastOp, outcome, result, lastSet1, lastSet2, lastPolicy>>

fields == <<_hadith_text1, _hadith_text1_cleaned, _hadith_text2, _hadith_text2_cleaned,
            _ignore_diacritics>>

----------------------------------------------------------------------------
(* Bounds of the model.                                                    *)

\* longest raw text a session of Spec is given
MaxSessionLen == 1
\* longest first text of SpecRatio
MaxLenA == 3
\* longest (short) second text of SpecRatio
MaxLenB == 4
\* most pieces concatenated into a raw text of SpecClean
MaxPieces == 3

----------------------------------------------------------------------------
(* Characters.                                                             *)

SPACE == 32
LT == 60
GT == 62
AMP == 38
SLASH == 47
HASH == 35
SEMICOLON == 59

\* the code points listed in _clean_up's punctuations
punctuations ==
    {1548, 1549, 1550, 1551, 1563, 1566, 1567, 1645, 1748, 1757, 1758, 1769,
     1789, 64830, 64831}

\* the characters str.split() treats as whitespace
Whitespace ==
    {9, 10, 11, 12, 13, 28, 29, 30, 31, 32, 133, 160, 5760, 8232, 8233, 8239,
     8287, 12288} \cup (8192..8202)

AsciiLetter == (65..90) \cup (97..122)

Digit == 48..57

\* unicodedata.category(c) = 'Mn' : combining diacritical marks, the Arabic
\* harakat and the superscript alef
Mn == (768..879) \cup (1611..1631) \cup {1648}

\* the canonical decomposition of a code point (NFD); the precomposed
\* characters of the model are alef with madda above and e with acute
Decomposition(c) ==
    CASE c = 1570 -> <<1575, 1619>>
      [] c = 233  -> <<101, 769>>
      [] OTHER    -> <<c>>

----------------------------------------------------------------------------
(* Sequence helpers.                                                       *)

Range(s) == {s[i] : i \in 1..Len(s)}

\* the concatenation of ss[lo], ..., ss[hi]
RECURSIVE FlattenRange(_, _, _)
FlattenRange(ss, lo, hi) ==
    IF lo > hi THEN <<>>
    ELSE IF lo = hi THEN ss[lo]
    ELSE LET mid == (lo + hi) \div 2
         IN  FlattenRange(ss, lo, mid) \o FlattenRange(ss, mid + 1, hi)

\* ''.join(ss)
Flatten(ss) == FlattenRange(ss, 1, Len(ss))

\* all sequences over S of length at most n
RECURSIVE SeqsUpTo(_, _)
SeqsUpTo(S, n) ==
    IF n = 0 THEN {<<>>}
    ELSE LET shorter == SeqsUpTo(S, n - 1)
         IN  shorter \cup {Append(s, c) : s \in shorter, c \in S}

----------------------------------------------------------------------------
(* _clean_up                                                               *)

\* re.sub('[' + punctuations + ']', ' ', hadith_text)
RemovePunctuations(text) ==
    [i \in 1..Len(text) |-> IF text[i] \in punctuations THEN SPACE ELSE text[i]]

\* whether a tag (<name ...> or </name ...>) starts at position p; a '<'
\* that no name follows is text
IsTagStart(text, p) ==
    /\ text[p] = LT
    /\ \/ p + 1 <= Len(text) /\ text[p + 1] \in AsciiLetter
       \/ p + 2 <= Len(text) /\ text[p + 1] = SLASH /\ text[p + 2] \in AsciiLetter

\* the position of the first non-digit at or after p
RECURSIVE DigitsEnd(_, _)
DigitsEnd(text, p) ==
    IF p <= Len(text) /\ text[p] \in Digit THEN DigitsEnd(text, p + 1) ELSE p

\* the number written in decimal by digits (a sequence of code points)
RECURSIVE DecimalValue(_)
DecimalValue(digits) ==
    IF digits = <<>> THEN 0
    ELSE 10 * DecimalValue(SubSeq(digits, 1, Len(digits) - 1))
         + (digits[Len(digits)] - 48)

NamedReferences ==
    { [name |-> <<108, 116>>,      char |-> LT],     \* &lt;
      [name |-> <<103, 116>>,      char |-> GT],     \* &gt;
      [name |-> <<97, 109, 112>>,  char |-> AMP] }   \* &amp;

\* the character reference starting at the '&' at position p, as
\* [char, next], or [char |-> AMP, next |-> p + 1] when there is none
Reference(text, p) ==
    LET named == {r \in NamedReferences :
                    /\ p + Len(r.name) + 1 <= Len(text)
                    /\ SubSeq(text, p + 1, p + Len(r.name)) = r.name
                    /\ text[p + Len(r.name) + 1] = SEMICOLON}
        e == DigitsEnd(text, p + 2)
    IN  IF named # {}
        THEN LET r == CHOOSE r \in named : TRUE
             IN  [char |-> r.char, next |-> p + Len(r.name) + 2]
        ELSE IF /\ p + 1 <= Len(text) /\ text[p + 1] = HASH
                /\ e > p + 2 /\ e <= Len(text) /\ text[e] = SEMICOLON
        THEN [char |-> DecimalValue(SubSeq(text, p + 2, e - 1)), next |-> e + 1]
        ELSE [char |-> AMP, next |-> p + 1]

\* the smallest element of a non-empty set of positions
First(S) == CHOOSE q \in S : \A x \in S : q <= x

\* the first position at or after p where a tag or a character reference may
\* start, or Len(text) + 1 when the rest is plain text
NextSpecial(text, p) ==
    First({q \in p..Len(text) : IsTagStart(text, q) \/ text[q] = AMP}
          \cup {Len(text) + 1})

\* the position just after the first '>' at or after position p, or past the
\* end of the text when the tag is never closed
TagEnd(text, p) ==
    First({q + 1 : q \in {x \in p..Len(text) : text[x] = GT}} \cup {Len(text) + 1})

\* the text content from position p on: the plain text up to the next tag
\* or reference, then what follows the tag, or the character referred to and
\* what follows the reference
RECURSIVE TextContent(_, _)
TextContent(text, p) ==
    IF p > Len(text) THEN <<>>
    ELSE LET q == NextSpecial(text, p)
         IN  SubSeq(text, p, q - 1) \o
             (IF q > Len(text) THEN <<>>
              ELSE IF IsTagStart(text, q) THEN TextContent(text, TagEnd(text, q))
              ELSE LET r == Reference(text, q)
                   IN  <<r.char>> \o TextContent(text, r.next))

\* BeautifulSoup(cleaned_text, 'lxml').text
StripMarkup(text) == TextContent(text, 1)

\* the positions at which a word (a maximal run of non-whitespace) starts
WordStarts(text) ==
    {i \in 1..Len(text) :
        text[i] \notin Whitespace /\ (i = 1 \/ text[i - 1] \in Whitespace)}

\* the position at which the word starting at i ends
WordEnd(text, i) ==
    CHOOSE e \in i..Len(text) :
        /\ \A x \in i..e : text[x] \notin Whitespace
        /\ e = Len(text) \/ text[e + 1] \in Whitespace

\* text.split() : the words of the text, in order
Split(text) ==
    LET starts == WordStarts(text)
        nth(k) == CHOOSE i \in starts : Cardinality({x \in starts : x < i}) = k - 1
    IN  [k \in 1..Cardinality(starts) |->
            SubSeq(text, nth(k), WordEnd(text, nth(k)))]

\* ' '.join(words)
Join(words) ==
    Flatten([k \in 1..(2 * Len(words) - 1) |->
                IF k % 2 = 1 THEN words[(k + 1) \div 2] ELSE <<SPACE>>])

CollapseWhitespace(text) == Join(Split(text))

_clean_up(hadith_text) ==
    CollapseWhitespace(StripMarkup(RemovePunctuations(hadith_text)))

----------------------------------------------------------------------------
(* _remove_diacritics                                                      *)

\* unicodedata.normalize('NFD', hadith_text)
NFD(text) == Flatten([i \in 1..Len(text) |-> Decomposition(text[i])])

_remove_diacritics(hadith_text) ==
    LET normalized == NFD(hadith_text)
        NotMn(c) == c \notin Mn
    IN  SelectSeq(normalized, NotMn)

----------------------------------------------------------------------------
(* difflib.SequenceMatcher(None, text1, text2).ratio()                     *)

\* SequenceMatcher's third optional argument, left at its default
autojunk == TRUE

\* the length of b from which the autojunk pruning applies
AutojunkMinLen == 200

Count(b, elt) == Cardinality({j \in 1..Len(b) : b[j] = elt})

\* Faulty variant of Popular: the pruning applied to b of every length
Popular_any_length(b) ==
    {elt \in Range(b) : Count(b, elt) > Len(b) \div 100 + 1}

\* __chain_b: the elements of b pruned from the index as "popular"
Popular(b) ==
    LET n == Len(b)
        ntest == n \div 100 + 1
    IN  IF autojunk /\ n >= AutojunkMinLen
        THEN {elt \in Range(b) : Count(b, elt) > ntest}
        ELSE {}

\* Faulty variant of Indices: the last position of b is left out
Indices_skip_last(b, elt) ==
    LET IsElt(j) == b[j + 1] = elt
    IN  SelectSeq([j \in 1..(Len(b) - 1) |-> j - 1], IsElt)

\* the 0-based indices of elt in b, increasing
Indices(b, elt) ==
    LET IsElt(j) == b[j + 1] = elt
    IN  SelectSeq([j \in 1..Len(b) |-> j - 1], IsElt)

\* __chain_b: b2j, the index of b (isjunk is None: no junk elements)
b2j(b) == [elt \in Range(b) \ Popular(b) |-> Indices(b, elt)]

J2Get(j2len, j) == IF j \in DOMAIN j2len THEN j2len[j] ELSE 0

\* find_longest_match: the loop over the indices js of a[i] in b.  js is
\* increasing, so skipping j < blo and breaking at the first j >= bhi visits
\* exactly the j in [blo, bhi); each gets k = j2len.get(j - 1, 0) + 1, and as
\* best is replaced only when k > bestsize, the loop ends with the first j
\* of the largest k, if that k exceeds the bestsize it started with
ScanJ(js, i, blo, bhi, j2len, best) ==
    LET visited == {js[n] : n \in {m \in 1..Len(js) : blo <= js[m] /\ js[m] < bhi}}
        newj2len == [j \in visited |-> J2Get(j2len, j - 1) + 1]
        kmax == CHOOSE k \in {newj2len[j] : j \in visited} :
                    \A j \in visited : newj2len[j] <= k
        jmax == CHOOSE j \in visited :
                    /\ newj2len[j] = kmax
                    /\ \A x \in visited : newj2len[x] = kmax => j <= x
    IN  [j2len |-> newj2len,
         best  |-> IF visited # {} /\ kmax > best.size
                   THEN [i |-> i - kmax + 1, j |-> jmax - kmax + 1, size |-> kmax]
                   ELSE best]

\* find_longest_match: the loop over i in range(i, ahi), from the state
\* st = [j2len, best]
RECURSIVE ScanI(_, _, _, _, _, _, _)
ScanI(a, index, i, ahi, blo, bhi, st) ==
    IF i >= ahi THEN st
    ELSE ScanI(a, index, i + 1, ahi, blo, bhi,
               ScanJ(IF a[i + 1] \in DOMAIN index THEN index[a[i + 1]] ELSE <<>>,
                     i, blo, bhi, st.j2len, st.best))

\* find_longest_match: extend the block to the left over equal elements
RECURSIVE ExtendBack(_, _, _, _, _)
ExtendBack(a, b, alo, blo, best) ==
    IF best.i > alo /\ best.j > blo /\ a[best.i] = b[best.j]
    THEN ExtendBack(a, b, alo, blo,
                    [i |-> best.i - 1, j |-> best.j - 1, size |-> best.size + 1])
    ELSE best

\* find_longest_match: extend the block to the right over equal elements
RECURSIVE ExtendForward(_, _, _, _, _)
ExtendForward(a, b, ahi, bhi, best) ==
    IF /\ best.i + best.size < ahi /\ best.j + best.size < bhi
       /\ a[best.i + best.size + 1] = b[best.j + best.size + 1]
    THEN ExtendForward(a, b, ahi, bhi, [best EXCEPT !.size = @ + 1])
    ELSE best

\* find_longest_match(alo, ahi, blo, bhi); with no junk the two closing loops
\* over junk elements never run
find_longest_match(a, b, index, alo, ahi, blo, bhi) ==
    LET best == ScanI(a, index, alo, ahi, blo, bhi,
                      [j2len |-> <<>>,
                       best |-> [i |-> alo, j |-> blo, size |-> 0]]).best
    IN  ExtendForward(a, b, ahi, bhi, ExtendBack(a, b, alo, blo, best))

\* get_matching_blocks: the blocks of a[alo:ahi] and b[blo:bhi], sorted
RECURSIVE Blocks(_, _, _, _, _, _, _)
Blocks(a, b, index, alo, ahi, blo, bhi) ==
    LET m == find_longest_match(a, b, index, alo, ahi, blo, bhi)
        k == m.size
    IN  IF k = 0 THEN <<>>
        ELSE (IF alo < m.i /\ blo < m.j
              THEN Blocks(a, b, index, alo, m.i, blo, m.j) ELSE <<>>)
             \o <<m>> \o
             (IF m.i + k < ahi /\ m.j + k < bhi
              THEN Blocks(a, b, index, m.i + k, ahi, m.j + k, bhi) ELSE <<>>)

get_matching_blocks(a, b) == Blocks(a, b, b2j(b), 0, Len(a), 0, Len(b))

RECURSIVE SumSizes(_)
SumSizes(blocks) ==
    IF blocks = <<>> THEN 0 ELSE Head(blocks).size + SumSizes(Tail(blocks))

\* the number of matched characters ratio() sums
Matches(a, b) == SumSizes(get_matching_blocks(a, b))

RECURSIVE GCD(_, _)
GCD(m, n) == IF n = 0 THEN m ELSE GCD(n, m % n)

\* the float n / d, as a fraction in lowest terms
Fraction(n, d) == [num |-> n \div GCD(n, d), den |-> d \div GCD(n, d)]

\* Faulty variant of calculate_ratio: 0.0 for two empty sequences
calculate_ratio_empty_zero(matches, length) ==
    IF length > 0 THEN Fraction(2 * matches, length) ELSE Fraction(0, 1)

\* _calculate_ratio(matches, length)
calculate_ratio(matches, length) ==
    IF length > 0 THEN Fraction(2 * matches, length) ELSE Fraction(1, 1)

\* Faulty variant of ratio: the matches are set against the length of a alone
ratio_of_first(a, b) == calculate_ratio(Matches(a, b), Len(a))

\* SequenceMatcher(None, a, b).ratio()
ratio(a, b) == calculate_ratio(Matches(a, b), Len(a) + Len(b))

----------------------------------------------------------------------------
(* The session: HadithDiffer                                               *)

NoResult == [num |-> -1, den |-> 1]

\* the class attributes a new HadithDiffer starts with
Init ==
    /\ _hadith_text1 = <<>>
    /\ _hadith_text1_cleaned = <<>>
    /\ _hadith_text2 = <<>>
    /\ _hadith_text2_cleaned = <<>>
    /\ _ignore_diacritics = FALSE
    /\ lastOp = "init"
    /\ outcome = "none"
    /\ result = NoResult
    /\ lastSet1 = <<>>
    /\ lastSet2 = <<>>
    /\ lastPolicy = FALSE

\* Faulty variant of set_hadith_texts: an empty argument is rejected
set_hadith_texts_validating(hadith_text1, hadith_text2) ==
    IF hadith_text1 = <<>> \/ hadith_text2 = <<>>
    THEN /\ lastOp' = "set"
         /\ outcome' = "error"
         /\ result' = NoResult
         /\ lastSet1' = hadith_text1
         /\ lastSet2' = hadith_text2
         /\ UNCHANGED <<_hadith_text1, _hadith_text1_cleaned, _hadith_text2,
                        _hadith_text2_cleaned, _ignore_diacritics, lastPolicy>>
    ELSE /\ _hadith_text1' = hadith_text1
         /\ _hadith_text1_cleaned' = _clean_up(hadith_text1)
         /\ _hadith_text2' = hadith_text2
         /\ _hadith_text2_cleaned' = _clean_up(hadith_text2)
         /\ lastOp' = "set"
         /\ outcome' = "self"
         /\ result' = NoResult
         /\ lastSet1' = hadith_text1
         /\ lastSet2' = hadith_text2
         /\ UNCHANGED <<_ignore_diacritics, lastPolicy>>

set_hadith_texts(hadith_text1, hadith_text2) ==
    /\ _hadith_text1' = hadith_text1
    /\ _hadith_text1_cleaned' = _clean_up(hadith_text1)
    /\ _hadith_text2' = hadith_text2
    /\ _hadith_text2_cleaned' = _clean_up(hadith_text2)
    /\ lastOp' = "set"
    /\ outcome' = "self"
    /\ result' = NoResult
    /\ lastSet1' = hadith_text1
    /\ lastSet2' = hadith_text2
    /\ UNCHANGED <<_ignore_diacritics, lastPolicy>>

\* Faulty variant of ignore_diacritics: the diacritics are stripped from the
\* stored cleaned texts when the policy is switched on
ignore_diacritics_in_place(ignore) ==
    /\ _ignore_diacritics' = ignore
    /\ _hadith_text1_cleaned' =
           IF ignore THEN _remove_diacritics(_hadith_text1_cleaned)
           ELSE _hadith_text1_cleaned
    /\ _hadith_text2_cleaned' =
           IF ignore THEN _remove_diacritics(_hadith_text2_cleaned)
           ELSE _hadith_text2_cleaned
    /\ lastOp' = "ignore"
    /\ outcome' = "self"
    /\ result' = NoResult
    /\ lastPolicy' = ignore
    /\ UNCHANGED <<_hadith_text1, _hadith_text2, lastSet1, lastSet2>>

ignore_diacritics(ignore) ==
    /\ _ignore_diacritics' = ignore
    /\ lastOp' = "ignore"
    /\ outcome' = "self"
    /\ result' = NoResult
    /\ lastPolicy' = ignore
    /\ UNCHANGED <<_hadith_text1, _hadith_text1_cleaned, _hadith_text2,
                   _hadith_text2_cleaned, lastSet1, lastSet2>>

\* the texts compare() hands to the SequenceMatcher
text1 ==
    IF _ignore_diacritics THEN _remove_diacritics(_hadith_text1_cleaned)
    ELSE _hadith_text1_cleaned

text2 ==
    IF _ignore_diacritics THEN _remove_diacritics(_hadith_text2_cleaned)
    ELSE _hadith_text2_cleaned

\* Faulty variant of TextsNotSet: the guard reads the cleaned texts
TextsNotSet_cleaned == _hadith_text1_cleaned = <<>> \/ _hadith_text2_cleaned = <<>>

\* the guard of compare(): "not self._hadith_text1 or not self._hadith_text2"
TextsNotSet == _hadith_text1 = <<>> \/ _hadith_text2 = <<>>

\* Faulty variant of compare: the texts it compared are kept as the cleaned
\* texts of the session
compare_storing ==
    /\ lastOp' = "compare"
    /\ IF TextsNotSet
       THEN /\ outcome' = "error" /\ result' = NoResult
            /\ UNCHANGED <<_hadith_text1_cleaned, _hadith_text2_cleaned>>
       ELSE /\ outcome' = "ratio" /\ result' = ratio(text1, text2)
            /\ _hadith_text1_cleaned' = text1
            /\ _hadith_text2_cleaned' = text2
    /\ UNCHANGED <<_hadith_text1, _hadith_text2, _ignore_diacritics,
                   lastSet1, lastSet2, lastPolicy>>

compare ==
    /\ lastOp' = "compare"
    /\ IF TextsNotSet
       THEN outcome' = "error" /\ result' = NoResult
       ELSE outcome' = "ratio" /\ result' = ratio(text1, text2)
    /\ UNCHANGED <<_hadith_text1, _hadith_text1_cleaned, _hadith_text2,
                   _hadith_text2_cleaned, _ignore_diacritics,
                   lastSet1, lastSet2, lastPolicy>>

----------------------------------------------------------------------------
(* Spec: a session driven by any sequence of calls, on short texts made of *)
(* a Latin letter, the Arabic comma, alef with madda above, alef and fatha. *)

SessionAlphabet == {97, 1548, 1570, 1575, 1614}

SessionTexts == SeqsUpTo(SessionAlphabet, MaxSessionLen)

Next ==
    \/ \E hadith_text1 \in SessionTexts, hadith_text2 \in SessionTexts :
           set_hadith_texts(hadith_text1, hadith_text2)
    \/ \E ignore \in BOOLEAN : ignore_diacritics(ignore)
    \/ compare

Spec == Init /\ [][Next]_vars

\* a session just after set_hadith_texts(t1, t2) on a new HadithDiffer
AfterFirstSet(t1, t2) ==
    /\ _hadith_text1 = t1
    /\ _hadith_text1_cleaned = _clean_up(t1)
    /\ _hadith_text2 = t2
    /\ _hadith_text2_cleaned = _clean_up(t2)
    /\ _ignore_diacritics = FALSE
    /\ lastOp = "set"
    /\ outcome = "self"
    /\ result = NoResult
    /\ lastSet1 = t1
    /\ lastSet2 = t2
    /\ lastPolicy = FALSE

NextCompare ==
    \/ \E ignore \in BOOLEAN : ignore_diacritics(ignore)
    \/ compare

----------------------------------------------------------------------------
(* SpecRatio: the ratio as a function of the two texts.  The texts are     *)
(* made of two letters and a combining accent, which cleaning leaves as   *)
(* they are; the second text is short, or one of two long texts on either  *)
(* side of the autojunk length.                                            *)

\* the letters a and b and the combining acute accent
RatioAlphabet == {97, 98, 769}

\* n times the letter a
Pad(n) == [i \in 1..n |-> 97]

LongTexts == {Pad(AutojunkMinLen - 1), <<98>> \o Pad(AutojunkMinLen - 1)}

RatioTextsA == SeqsUpTo(RatioAlphabet, MaxLenA)

RatioTextsB == SeqsUpTo(RatioAlphabet, MaxLenB) \cup LongTexts

InitRatio == \E t1 \in RatioTextsA, t2 \in RatioTextsB : AfterFirstSet(t1, t2)

SpecRatio == InitRatio /\ [][NextCompare]_vars

----------------------------------------------------------------------------
(* SpecClean: cleaning as a function of the raw text.  A raw text is a     *)
(* concatenation of pieces: letters, whitespace, punctuation, complete     *)
(* tags and complete character references.                                 *)

Pieces ==
    { <<97>>,                              \* a
      <<98>>,                              \* b
      <<SPACE>>,
      <<10>>,                              \* newline
      <<1548>>,                            \* ARABIC COMMA
      <<LT, 98, GT>>,                      \* <b>
      <<LT, SLASH, 98, GT>>,               \* </b>
      <<AMP, 97, 109, 112, SEMICOLON>>,    \* &amp;
      <<AMP, 108, 116, SEMICOLON, 98, AMP, 103, 116, SEMICOLON>>,   \* &lt;b&gt;
      <<AMP, HASH, 49, 53, 52, 56, SEMICOLON>> }   \* &#1548;

CleanTexts == {Flatten(ps) : ps \in SeqsUpTo(Pieces, MaxPieces)}

InitClean == \E t1 \in CleanTexts, t2 \in {<<97>>, <<>>} : AfterFirstSet(t1, t2)

SpecClean == InitClean /\ [][NextCompare]_vars

----------------------------------------------------------------------------
(* Definitions the properties are stated with.                             *)

\* what a new session returns for set_hadith_texts(t1, t2),
\* ignore_diacritics(ignore), compare(): the outcome and the ratio
CompareOf(t1, t2, ignore) ==
    LET c1 == _clean_up(t1)
        c2 == _clean_up(t2)
    IN  IF t1 = <<>> \/ t2 = <<>> THEN <<"error", NoResult>>
        ELSE IF ignore
        THEN <<"ratio", ratio(_remove_diacritics(c1), _remove_diacritics(c2))>>
        ELSE <<"ratio", ratio(c1, c2)>>

\* a[i .. i+k-1] = b[j .. j+k-1] (1-based), a common contiguous block
CommonAt(a, b, i, j, k) ==
    /\ i + k - 1 <= Len(a)
    /\ j + k - 1 <= Len(b)
    /\ \A d \in 0..(k - 1) : a[i + d] = b[j + d]

Min(a, b) == IF a <= b THEN a ELSE b

\* the length of the longest common contiguous block of a and b
LongestCommon(a, b) ==
    CHOOSE k \in 0..Min(Len(a), Len(b)) :
        /\ k > 0 => \E i \in 1..Len(a), j \in 1..Len(b) : CommonAt(a, b, i, j, k)
        /\ \A k2 \in (k + 1)..Min(Len(a), Len(b)) :
               ~ \E i \in 1..Len(a), j \in 1..Len(b) : CommonAt(a, b, i, j, k2)

\* the plain recursive count: the longest common block, of smallest start in
\* a and then in b, plus the counts strictly left and strictly right of it
RECURSIVE PlainMatched(_, _)
PlainMatched(a, b) ==
    LET k == LongestCommon(a, b)
    IN  IF k = 0 THEN 0
        ELSE LET i == CHOOSE i \in 1..Len(a) :
                          /\ \E j \in 1..Len(b) : CommonAt(a, b, i, j, k)
                          /\ \A i2 \in 1..(i - 1) :
                                 ~ \E j \in 1..Len(b) : CommonAt(a, b, i2, j, k)
                 j == CHOOSE j \in 1..Len(b) :
                          /\ CommonAt(a, b, i, j, k)
                          /\ \A j2 \in 1..(j - 1) : ~ CommonAt(a, b, i, j2, k)
             IN  k + PlainMatched(SubSeq(a, 1, i - 1), SubSeq(b, 1, j - 1))
                   + PlainMatched(SubSeq(a, i + k, Len(a)), SubSeq(b, j + k, Len(b)))

\* 2 * M / (len(a) + len(b)) with the plain count M, and 1.0 for two empty
\* sequences
PlainRatio(a, b) ==
    IF Len(a) + Len(b) = 0 THEN [num |-> 1, den |-> 1]
    ELSE Fraction(2 * PlainMatched(a, b), Len(a) + Len(b))

\* s holds no markup: taking its text content leaves it as it is
NoMarkup(s) == StripMarkup(s) = s

\* the only whitespace in s is single spaces between two words
SingleSpaced(s) ==
    \A i \in 1..Len(s) :
        s[i] \in Whitespace =>
            /\ s[i] = SPACE
            /\ 1 < i /\ i < Len(s)
            /\ s[i - 1] \notin Whitespace

IsClean(s) ==
    /\ NoMarkup(s)
    /\ Range(s) \cap punctuations = {}
    /\ SingleSpaced(s)

----------------------------------------------------------------------------
(* The properties.                                                         *)

\* C1 (as stated): set_hadith_texts ends in an error whenever either of its
\* arguments is the empty string.
C1_SetRejectsEmpty ==
    (lastOp = "set" /\ (lastSet1 = <<>> \/ lastSet2 = <<>>)) => outcome = "error"

\* C1 (amended): set_hadith_texts never fails: for every pair of arguments,
\* the empty string included, it stores both raw texts and their cleaned
\* forms and returns the session; the compare() that follows a call with an
\* empty argument ends in an error.
C1_SetAcceptsAny ==
    /\ lastOp = "set" =>
           /\ outcome = "self"
           /\ _hadith_text1 = lastSet1
           /\ _hadith_text2 = lastSet2
           /\ _hadith_text1_cleaned = _clean_up(lastSet1)
           /\ _hadith_text2_cleaned = _clean_up(lastSet2)
    /\ (lastOp = "compare" /\ (lastSet1 = <<>> \/ lastSet2 = <<>>)) =>
           outcome = "error"

\* C1, reached: set_hadith_texts('', t) with t non-empty has returned the
\* session and stored t.
C1_Witness ==
    /\ lastOp = "set"
    /\ lastSet1 = <<>>
    /\ lastSet2 # <<>>
    /\ outcome = "self"
    /\ _hadith_text2 = lastSet2

\* C2: compare() ends in an error exactly when one of the two stored raw
\* texts is empty; when both are non-empty it returns a ratio, also when a
\* cleaned text is empty.
C2_ErrorIffRawEmpty ==
    lastOp = "compare" =>
        IF _hadith_text1 = <<>> \/ _hadith_text2 = <<>>
        THEN outcome = "error" /\ result = NoResult
        ELSE outcome = "ratio" /\ result # NoResult

\* C2, reached: compare() has returned a ratio for two non-empty raw texts
\* of which the first cleans to the empty text.
C2_Witness ==
    /\ lastOp = "compare"
    /\ _hadith_text1 # <<>>
    /\ _hadith_text2 # <<>>
    /\ _hadith_text1_cleaned = <<>>
    /\ outcome = "ratio"

\* C3: compare() is a pure read: a compare() step leaves the raw texts, the
\* cleaned texts and the policy as they were, and a compare() that follows a
\* compare() ends as the first did.
C3_ComparePureRead ==
    [][lastOp' = "compare" =>
          /\ fields' = fields
          /\ lastOp = "compare" => (outcome' = outcome /\ result' = result)]_vars

\* C3, reached: compare() has returned a ratio under the policy "ignore" for
\* a cleaned text that has diacritics to strip.
C3_Witness ==
    /\ lastOp = "compare"
    /\ outcome = "ratio"
    /\ _ignore_diacritics
    /\ _remove_diacritics(_hadith_text1_cleaned) # _hadith_text1_cleaned

\* C4: every ratio compare() returns lies in [0, 1].
C4_RatioInUnitRange ==
    outcome = "ratio" =>
        /\ result.den > 0
        /\ 0 <= result.num
        /\ result.num <= result.den

\* C4, reached: compare() has returned a ratio strictly between 0 and 1 for
\* texts whose diacritics were stripped.
C4_Witness ==
    /\ outcome = "ratio"
    /\ _ignore_diacritics
    /\ text1 # _hadith_text1_cleaned
    /\ 0 < result.num
    /\ result.num < result.den

\* C5 (as stated): the ratio is symmetric: the value compare() returns is
\* the value it returns with the two arguments of set_hadith_texts swapped.
C5_Symmetric ==
    outcome = "ratio" =>
        <<outcome, result>> = CompareOf(lastSet2, lastSet1, lastPolicy)

\* C5 (amended): the ratio is symmetric when the two compared sequences
\* have at most 5 characters together.
C5_SymmetricUpToFive ==
    (outcome = "ratio" /\ Len(text1) + Len(text2) <= 5) =>
        <<outcome, result>> = CompareOf(lastSet2, lastSet1, lastPolicy)

\* C5, reached: compare() has returned 4/5 for sequences of 2 and 3
\* characters.
C5_Witness ==
    /\ outcome = "ratio"
    /\ Len(text1) = 2
    /\ Len(text2) = 3
    /\ text1[1] # text1[2]
    /\ result = [num |-> 4, den |-> 5]

\* C6 (as stated): the ratio is 2 * M / (len(a) + len(b)) with M the plain
\* recursive count, and 1.0 when both sequences are empty.
C6_RatioIsPlain ==
    outcome = "ratio" => result = PlainRatio(text1, text2)

\* C6 (amended): the same, for a second sequence of fewer than 200
\* characters.
C6_RatioIsPlainBelow200 ==
    (outcome = "ratio" /\ Len(text2) < AutojunkMinLen) =>
        result = PlainRatio(text1, text2)

\* C6, reached: compare() has returned 2/3 for 'ab' against a text in which
\* the longest blocks tie.
C6_Witness ==
    /\ outcome = "ratio"
    /\ text1 = <<97, 98>>
    /\ text2 = <<98, 97, 769, 98>>
    /\ result = [num |-> 2, den |-> 3]

\* C7: cleaning is idempotent: cleaning a stored cleaned text again gives
\* the same text.
C7_CleanIdempotent ==
    /\ _clean_up(_hadith_text1_cleaned) = _hadith_text1_cleaned
    /\ _clean_up(_hadith_text2_cleaned) = _hadith_text2_cleaned

\* C8: each stored cleaned text holds no markup, no character of the
\* punctuation set, and no whitespace but single spaces between words.
C8_CleanedIsClean ==
    IsClean(_hadith_text1_cleaned) /\ IsClean(_hadith_text2_cleaned)

\* C9: the policy starts as "do not ignore"; in every state the stored texts
\* are those of the last set_hadith_texts call, whatever ignore_diacritics
\* calls came after it, the policy is that of the last ignore_diacritics
\* call, and compare() ends as it does in a new session given only the last
\* pair of texts and the last policy.
C9_LastCallsDecide ==
    /\ lastOp = "init" => ~ _ignore_diacritics
    /\ _ignore_diacritics = lastPolicy
    /\ _hadith_text1 = lastSet1
    /\ _hadith_text2 = lastSet2
    /\ _hadith_text1_cleaned = _clean_up(lastSet1)
    /\ _hadith_text2_cleaned = _clean_up(lastSet2)
    /\ lastOp = "compare" =>
           <<outcome, result>> = CompareOf(lastSet1, lastSet2, lastPolicy)

\* C9, reached: compare() has returned 1.0 for alef with madda against alef
\* after the policy was last set to "ignore".
C9_Witness ==
    /\ lastOp = "compare"
    /\ lastPolicy
    /\ lastSet1 = <<1570>>
    /\ lastSet2 = <<1575>>
    /\ result = [num |-> 1, den |-> 1]

\* C10 (as stated): no autojunk: every character of the second sequence is
\* in the index with all its positions, and the matched count is the plain
\* recursive count.
C10_NoAutojunk ==
    outcome = "ratio" =>
        /\ Popular(text2) = {}
        /\ DOMAIN b2j(text2) = Range(text2)
        /\ Matches(text1, text2) = PlainMatched(text1, text2)

\* C10 (amended): the same, for a second sequence of fewer than 200
\* characters; from 200 characters on, the characters that occur more than
\* len/100 + 1 times in it are left out of the index.
C10_NoAutojunkBelow200 ==
    (outcome = "ratio" /\ Len(text2) < AutojunkMinLen) =>
        /\ Popular(text2) = {}
        /\ DOMAIN b2j(text2) = Range(text2)
        /\ \A elt \in Range(text2) : Len(b2j(text2)[elt]) = Count(text2, elt)
        /\ Matches(text1, text2) = PlainMatched(text1, text2)

\* C10, reached: compare() has matched 'aa' against 199 times the letter a,
\* all of them in the index.
C10_Witness ==
    /\ outcome = "ratio"
    /\ Len(text2) = AutojunkMinLen - 1
    /\ Count(text2, 97) = AutojunkMinLen - 1
    /\ text1 = <<97, 97>>
    /\ Matches(text1, text2) = 2

====
